---------------------------- MODULE Spec2Model ----------------------------
(***************************************************************************)
(* A model of app.py: a Dash dashboard over Hungarian census data.         *)
(*                                                                         *)
(* Two specifications are given.                                           *)
(*   SpecPipe : the data pipeline (join with the county lookup, wide to    *)
(*              long reshaping, per-county mean) applied to input files    *)
(*              drawn from bounded sets.                                   *)
(*   Spec     : main(): the three loads at startup, then the five Dash     *)
(*              callbacks fired by the two dropdowns.                      *)
(*                                                                         *)
(* Representation.                                                         *)
(*   A cell is Str(s) or Num(n).  Numbers are fixed point, in units of     *)
(*   0.00001, so the fraction 0.015 is Num(1500) and 1.5 is Num(150000).   *)
(*   A DataFrame is [columns |-> <<names>>, records |-> <<tuples>>], the   *)
(*   tuples being what DataFrame.to_records(index=False) yields: python's  *)
(*   record[k] is rec[k + 1] here and record[-1] is rec[Len(rec)].  The    *)
(*   frames the code fills row by row from dicts (new_df, final_df) keep   *)
(*   their rows as records with the dict's keys.                           *)
(***************************************************************************)
EXTENDS Integers, Sequences, FiniteSets, TLC

VARIABLES
    \* ---- SpecPipe ----
    counties,      \* the content of assets/counties.json
    frame,         \* the DataFrame pd.read_json returned
    kind,          \* "year" or "change": which file frame was read from
    merged,        \* merge_with_county_names(frame), or NoFrame
    long,          \* the long table of the last transformation, or NoFrame
    final,         \* final_df of make_bar_chart_of_changes_by_group, or NoFrame
    key,           \* the group argument of the last aggregation
    raised,        \* what the last pipeline call raised ("none": it returned)
    \* ---- Spec ----
    assets,        \* the state of each asset file: "ok", "missing", "malformed"
    pc,            \* the position of main()
    df_2011, df_2022, change_df,   \* the locals of main() the callbacks close over
    loads,         \* how many times each table was loaded
    census, group, \* the value of the two dcc.Dropdown components
    pending,       \* the callbacks Dash has still to run
    figures,       \* the figure property of the five dcc.Graph components
    last,          \* the last callback run: its name, arguments and outcome
    selections     \* how many times the user has changed a dropdown

pipeVars == <<counties, frame, kind, merged, long, final, key, raised>>
appVars == <<assets, pc, df_2011, df_2022, change_df, loads, census, group,
             pending, figures, last, selections>>
vars == <<pipeVars, appVars>>

----------------------------------------------------------------------------
(* Values *)

Str(s) == [str |-> s]
Num(n) == [num |-> n]
IsNum(c) == DOMAIN c = {"num"}

\* Python's None, as the value of a cleared dropdown and of a missing table.
None == "None"
NoFrame == [none |-> TRUE]

\* Fixed point: a unit is 0.00001, so two decimals (the 2 of line 229's
\* round) are the multiples of Cent.
Cent == 1000

Range(s) == {s[i] : i \in DOMAIN s}

RECURSIVE Concat(_)
Concat(ss) == IF ss = <<>> THEN <<>> ELSE Head(ss) \o Concat(Tail(ss))

RECURSIVE SumSeq(_)
SumSeq(s) == IF s = <<>> THEN 0 ELSE Head(s) + SumSeq(Tail(s))

----------------------------------------------------------------------------
(* app.py, lines 8-19 *)

RELIGIONS ==
    << [label |-> "Katolikus",          value |-> "catholic"],
       [label |-> "Reformatus",         value |-> "calvinist"],
       [label |-> "Evangelikus",        value |-> "lutheran"],
       [label |-> "Ortodox kereszteny", value |-> "orthodox_christian"],
       [label |-> "Mas kereszteny",     value |-> "other_christian"],
       [label |-> "Zsido",              value |-> "jewish"],
       [label |-> "Egyeb",              value |-> "other"],
       [label |-> "Ateista",            value |-> "atheist"] >>

RELIGION_VALUES == [i \in DOMAIN RELIGIONS |-> RELIGIONS[i].value]

\* f'change_{x}'
change_(x) == "change_" \o x


----------------------------------------------------------------------------
(* DataFrame helpers (pandas) *)

DataFrame(cols, recs) == [columns |-> cols, records |-> recs]

\* The position of a column (the code's positional indices are 0-based).
IndexOf(cols, name) == CHOOSE i \in DOMAIN cols : cols[i] = name

HasColumn(df, name) == name \in Range(df.columns)

\* df[name]: the cells of one column, in row order.
Column(df, name) ==
    LET i == IndexOf(df.columns, name)
    IN  [r \in DOMAIN df.records |-> df.records[r][i]]

\* pd.unique: the distinct values in order of first appearance.
RECURSIVE unique(_)
unique(s) ==
    IF s = <<>> THEN <<>>
    ELSE LET h == Head(s)
             NotH(x) == x # h
         IN  <<h>> \o unique(SelectSeq(Tail(s), NotH))

\* round(x, 2) on a value in units of 0.00001: the nearest multiple of Cent,
\* a tie going to the even one (numpy's rint).
round2(v) ==
    LET q == v \div Cent
        r == v % Cent
    IN  IF 2 * r < Cent THEN q * Cent
        ELSE IF 2 * r > Cent THEN (q + 1) * Cent
        ELSE IF q % 2 = 0 THEN q * Cent ELSE (q + 1) * Cent

RECURSIVE gcd(_, _)
gcd(a, b) == IF b = 0 THEN a ELSE gcd(b, a % b)

abs(a) == IF a < 0 THEN -a ELSE a

\* Series.mean(): the sum over the count, kept exact as a reduced fraction
\* (of units of 0.00001).
mean(values) ==
    LET s == SumSeq([i \in DOMAIN values |-> values[i].num])
        n == Len(values)
        g == gcd(abs(s), n)
    IN  [num |-> s \div g, den |-> n \div g]

----------------------------------------------------------------------------
(* app.py, lines 27-49 *)

\* The loop of lines 34-45: one (id, county) row per identifier of each
\* county, in file order.
df_l(countiesFile) ==
    Concat([c \in DOMAIN countiesFile |->
              [k \in DOMAIN countiesFile[c].ids |->
                 [id |-> countiesFile[c].ids[k],
                  county |-> countiesFile[c].name]]])

\* A left join in place of the inner join: an unresolved row is kept, with
\* no county.
merge_left(df, countiesFile) ==
    LET right == df_l(countiesFile)
        i == IndexOf(df.columns, "id")
        Matches(rec) ==
            Concat([k \in DOMAIN right |->
                      IF rec[i] = Str(right[k].id)
                      THEN << Append(rec, Str(right[k].county)) >>
                      ELSE <<>>])
        Kept(rec) == IF Matches(rec) = <<>> THEN << Append(rec, Str("NaN")) >>
                     ELSE Matches(rec)
    IN  DataFrame(Append(df.columns, "county"),
                  Concat([r \in DOMAIN df.records |-> Kept(df.records[r])]))

\* df.merge(df_l, on='id'): an inner join that keeps the left rows' order
\* and appends the right frame's other column.
merge_with_county_names(df, countiesFile) ==
    LET right == df_l(countiesFile)
        i == IndexOf(df.columns, "id")
        Matches(rec) ==
            Concat([k \in DOMAIN right |->
                      IF rec[i] = Str(right[k].id)
                      THEN << Append(rec, Str(right[k].county)) >>
                      ELSE <<>>])
    IN  DataFrame(Append(df.columns, "county"),
                  Concat([r \in DOMAIN df.records |-> Matches(df.records[r])]))

\* Every column but the identifier and the county taken for a religion.
transform_every_column(df) ==
    LET RowsOf(record) ==
            Concat([index \in DOMAIN df.columns |->
                      IF df.columns[index] \notin {"id", "county"}
                      THEN << [id     |-> record[2],
                               county |-> record[Len(record)],
                               group  |-> df.columns[index],
                               value  |-> record[index]] >>
                      ELSE <<>>])
    IN  DataFrame(<<"id", "county", "group", "value">>,
                  Concat([r \in DOMAIN df.records |-> RowsOf(df.records[r])]))

(* app.py, lines 80-98 *)
transform_data_orientation(df) ==
    LET RowsOf(record) ==
            Concat([index \in DOMAIN df.columns |->
                      IF df.columns[index] \in Range(RELIGION_VALUES)
                      THEN << [id     |-> record[2],
                               county |-> record[Len(record)],
                               group  |-> df.columns[index],
                               value  |-> record[index]] >>
                      ELSE <<>>])
    IN  DataFrame(<<"id", "county", "group", "value">>,
                  Concat([r \in DOMAIN df.records |-> RowsOf(df.records[r])]))

\* The scaling of line 229 without its rounding.
transform_changes_unrounded(df) ==
    LET column_names == {change_(x) : x \in Range(RELIGION_VALUES)}
        RowsOf(record) ==
            Concat([index \in DOMAIN df.columns |->
                      IF df.columns[index] \in column_names
                      THEN << [id     |-> record[1],
                               county |-> record[Len(record)],
                               group  |-> df.columns[index],
                               value  |-> Num(record[index].num * 100)] >>
                      ELSE <<>>])
    IN  DataFrame(<<"id", "county", "group", "value">>,
                  Concat([r \in DOMAIN df.records |-> RowsOf(df.records[r])]))

(* app.py, lines 209-231 *)
transform_changes_data_frame(df) ==
    LET column_names == {change_(x) : x \in Range(RELIGION_VALUES)}
        RowsOf(record) ==
            Concat([index \in DOMAIN df.columns |->
                      IF df.columns[index] \in column_names
                      THEN << [id     |-> record[1],
                               county |-> record[Len(record)],
                               group  |-> df.columns[index],
                               value  |-> record[index]] >>
                      ELSE <<>>])
        new_df == Concat([r \in DOMAIN df.records |-> RowsOf(df.records[r])])
    IN  DataFrame(<<"id", "county", "group", "value">>,
                  [r \in DOMAIN new_df |->
                     [new_df[r] EXCEPT
                        !.value = Num(round2(new_df[r].value.num * 100))]])

\* The aggregation without the filter of line 237: every group's rows
\* enter the mean.
final_df_unfiltered(df, grp) ==
    LET new_df == transform_changes_data_frame(df).records
        names == unique([r \in DOMAIN new_df |-> new_df[r].county])
        ValuesOf(county) ==
            LET InCounty(row) == row.county = county
                rows == SelectSeq(new_df, InCounty)
            IN  [r \in DOMAIN rows |-> rows[r].value]
    IN  DataFrame(<<"county", "average_change">>,
                  [c \in DOMAIN names |->
                     [county |-> names[c],
                      average_change |-> mean(ValuesOf(names[c]))]])

(* app.py, lines 234-248: final_df of make_bar_chart_of_changes_by_group *)
final_df(df, grp) ==
    LET InGroup(row) == row.group = change_(grp)
        new_df == SelectSeq(transform_changes_data_frame(df).records, InGroup)
        names == unique([r \in DOMAIN new_df |-> new_df[r].county])
        ValuesOf(county) ==
            LET InCounty(row) == row.county = county
                rows == SelectSeq(new_df, InCounty)
            IN  [r \in DOMAIN rows |-> rows[r].value]
    IN  DataFrame(<<"county", "average_change">>,
                  [c \in DOMAIN names |->
                     [county |-> names[c],
                      average_change |-> mean(ValuesOf(names[c]))]])

----------------------------------------------------------------------------
(* Outcomes of a call: it returns a value or raises *)

Return(v) == [raised |-> "none", value |-> v]
Raise(e) == [raised |-> e, value |-> NoFrame]

NoFigure == [type |-> "none"]

----------------------------------------------------------------------------
(* The asset files of a run of main() *)

CountiesPath == "assets/counties.json"
YearPath(year) == "assets/religious_denominations_" \o year \o ".json"
ChangePath == "assets/change_between_2011_and_2022_by_district.json"
Paths == {CountiesPath, YearPath("2011"), YearPath("2022"), ChangePath}

\* What the files hold when they are readable: two counties, two districts,
\* a column per religion; the head counts differ between the two years.
AssetCounties ==
    << [name |-> "Pest", ids |-> <<"001", "003">>],
       [name |-> "Fejer", ids |-> <<"002">>] >>
AssetIds == <<"001", "002">>
AssetYear(year) ==
    DataFrame(<<"name", "id">> \o RELIGION_VALUES,
              [r \in DOMAIN AssetIds |->
                 <<Str("jaras " \o AssetIds[r]), Str(AssetIds[r])>> \o
                 [c \in DOMAIN RELIGION_VALUES |->
                    Num((IF year = "2011" THEN 100 ELSE 90) * r + c)]])
AssetChange ==
    DataFrame(<<"id">> \o [c \in DOMAIN RELIGION_VALUES |-> change_(RELIGION_VALUES[c])],
              [r \in DOMAIN AssetIds |->
                 <<Str(AssetIds[r])>> \o
                 [c \in DOMAIN RELIGION_VALUES |-> Num(617 * c - 2000 * r)]])
Content(path) ==
    CASE path = CountiesPath     -> AssetCounties
      [] path = YearPath("2011") -> AssetYear("2011")
      [] path = YearPath("2022") -> AssetYear("2022")
      [] path = ChangePath       -> AssetChange

\* open / json.load / pd.read_json on a path (lines 28-30, 53, 67): a file
\* that is not there raises the NotFoundError, one that does not parse the
\* ParseError.
read_json(path) ==
    IF path \notin DOMAIN assets \/ assets[path] = "missing"
    THEN Raise("NotFoundError")
    ELSE IF assets[path] = "malformed" THEN Raise("ParseError")
    ELSE Return(Content(path))

\* lines 52-63 and 66-77, with the open() of merge_with_county_names.
load_frame(path) ==
    LET df == read_json(path)
        lookup == read_json(CountiesPath)
    IN  IF df.raised # "none" THEN df
        ELSE IF lookup.raised # "none" THEN lookup
        ELSE Return(merge_with_county_names(df.value, lookup.value))

load_data_frame(year) == load_frame(YearPath(year))
load_change_data_frame == load_frame(ChangePath)

----------------------------------------------------------------------------
(* The chart builders.  A figure is the data px was given.  Each builder    *)
(* yields the set of outcomes the call can have.                            *)

(* app.py, lines 101-135.  px raises a ValueError on a data_frame of None  *)
(* and on a color that names no column; with a color of None, plotly       *)
(* either draws an uncoloured map or rejects custom_data=[None].           *)
make_choropleth_map(df, religion) ==
    IF df = NoFrame THEN {Raise("ValueError")}
    ELSE IF religion = None
    THEN {Raise("ValueError"),
          Return([type |-> "choropleth_mapbox", locations |-> Column(df, "id"),
                  color |-> None, z |-> <<>>])}
    ELSE IF ~HasColumn(df, religion) THEN {Raise("ValueError")}
    ELSE {Return([type |-> "choropleth_mapbox", locations |-> Column(df, "id"),
                  color |-> religion, z |-> Column(df, religion)])}

\* df_copy[c] = df_copy[c] * 100 (line 154), on the frame it is handed.
scaled(df, c) ==
    LET i == IndexOf(df.columns, c)
    IN  DataFrame(df.columns,
                  [r \in DOMAIN df.records |->
                     [df.records[r] EXCEPT ![i] = Num(df.records[r][i].num * 100)]])

\* make_change_choropleth_map with df_copy = df in place of line 139's copy.
make_change_choropleth_map_in_place(df, religion) ==
    IF ~HasColumn(df, change_(religion))
    THEN {[raised |-> "KeyError", value |-> NoFrame, df |-> df]}
    ELSE LET df_copy == scaled(df, change_(religion))
             z == Column(df_copy, change_(religion))
         IN  {[raised |-> "none",
               value |-> [type |-> "choropleth_mapbox",
                          locations |-> Column(df_copy, "id"),
                          color |-> change_(religion),
                          z |-> z,
                          custom_data |-> [r \in DOMAIN z |-> Num(round2(z[r].num))]],
               df |-> df_copy]}

(* app.py, lines 138-176.  The outcome carries the caller's frame as the   *)
(* call leaves it: the scaling is done on df_copy, a copy (line 139).      *)
make_change_choropleth_map(df, religion) ==
    IF ~HasColumn(df, change_(religion))
    THEN {[raised |-> "KeyError", value |-> NoFrame, df |-> df]}
    ELSE LET df_copy == scaled(df, change_(religion))
             z == Column(df_copy, change_(religion))
         IN  {[raised |-> "none",
               value |-> [type |-> "choropleth_mapbox",
                          locations |-> Column(df_copy, "id"),
                          color |-> change_(religion),
                          z |-> z,
                          custom_data |-> [r \in DOMAIN z |-> Num(round2(z[r].num))]],
               df |-> df]}

(* app.py, lines 179-190: None has no to_records. *)
make_bar_chart_by_county(df) ==
    IF df = NoFrame THEN {Raise("AttributeError")}
    ELSE {Return([type |-> "bar", x |-> "county", y |-> "value", color |-> "group",
                  data |-> transform_data_orientation(df)])}

(* app.py, lines 193-206 *)
make_bar_chart_by_county_and_group(df, grp) ==
    IF df = NoFrame THEN {Raise("AttributeError")}
    ELSE LET new_df == transform_data_orientation(df)
             InGroup(row) == row.group = grp
         IN  {Return([type |-> "bar", x |-> "county", y |-> "value", color |-> None,
                      data |-> DataFrame(new_df.columns,
                                         SelectSeq(new_df.records, InGroup))])}

(* app.py, lines 234-258 *)
make_bar_chart_of_changes_by_group(df, grp) ==
    {Return([type |-> "bar", x |-> "county", y |-> "average_change", color |-> None,
             data |-> final_df(df, grp)])}

----------------------------------------------------------------------------
(* main(), lines 261-379 *)

\* How many times the user changes a dropdown in a run.
MaxSelections == 2

\* The values the user gives the two dropdowns (two of the eight religions);
\* a dcc.Dropdown can also be cleared, its value then being None.
\* (Years are written as strings, so that None is a value like the others.)
CensusOptions == {"2011", "2022"}
GroupOptions == {"catholic", "calvinist"}

Outputs == {"choropleth_map", "single_religion_bar_chart",
            "every_religion_bar_chart", "change_map", "change_bar"}

\* The Input components of two callbacks with the religion dropdown left out.
Inputs_census_only(output) ==
    CASE output = "choropleth_map"            -> {"census", "denomination"}
      [] output = "single_religion_bar_chart" -> {"census"}
      [] output = "every_religion_bar_chart"  -> {"census"}
      [] output = "change_map"                -> {"denomination"}
      [] output = "change_bar"                -> {}

\* The Input components of the callback registered for each Output
\* (lines 339-343, 348-352, 357-360, 365-368, 372-375).
Inputs(output) ==
    CASE output = "choropleth_map"            -> {"census", "denomination"}
      [] output = "single_religion_bar_chart" -> {"census", "denomination"}
      [] output = "every_religion_bar_chart"  -> {"census"}
      [] output = "change_map"                -> {"denomination"}
      [] output = "change_bar"                -> {"denomination"}

Triggered(input) == {o \in Outputs : input \in Inputs(o)}

\* A failed load goes unnoticed: main() carries on.
after_load_ignoring(outcome, next) == next

\* Where main() goes after a load: an exception leaves main() (lines
\* 262-266 catch nothing).
after_load(outcome, next) == IF outcome.raised # "none" THEN "aborted" ELSE next

\* lines 333-337: no return for any other year, so None.
get_data_frame_by_year(year) ==
    IF year = "2011" THEN df_2011
    ELSE IF year = "2022" THEN df_2022
    ELSE NoFrame

NoCall == [callback |-> "none"]

PipeIdle ==
    /\ counties = <<>> /\ frame = NoFrame /\ kind = "none"
    /\ merged = NoFrame /\ long = NoFrame /\ final = NoFrame
    /\ key = None /\ raised = "none"

Init ==
    /\ assets \in [Paths -> {"ok", "missing", "malformed"}]
    /\ pc = "load_2011"
    /\ df_2011 = NoFrame /\ df_2022 = NoFrame /\ change_df = NoFrame
    /\ loads = [t \in {"2011", "2022", "change"} |-> 0]
    /\ census = None /\ group = None
    /\ pending = {}
    /\ figures = [o \in Outputs |-> NoFigure]
    /\ last = NoCall
    /\ selections = 0
    /\ PipeIdle

\* line 262
Load2011 ==
    /\ pc = "load_2011"
    /\ LET outcome == load_data_frame("2011")
       IN  /\ df_2011' = outcome.value
           /\ pc' = after_load(outcome, "load_2022")
    /\ loads' = [loads EXCEPT !["2011"] = @ + 1]
    /\ UNCHANGED <<assets, df_2022, change_df, census, group, pending, figures,
                   last, selections, pipeVars>>

\* line 264
Load2022 ==
    /\ pc = "load_2022"
    /\ LET outcome == load_data_frame("2022")
       IN  /\ df_2022' = outcome.value
           /\ pc' = after_load(outcome, "load_change")
    /\ loads' = [loads EXCEPT !["2022"] = @ + 1]
    /\ UNCHANGED <<assets, df_2011, change_df, census, group, pending, figures,
                   last, selections, pipeVars>>

\* line 266
LoadChange ==
    /\ pc = "load_change"
    /\ LET outcome == load_change_data_frame
       IN  /\ change_df' = outcome.value
           /\ pc' = after_load(outcome, "layout")
    /\ loads' = [loads EXCEPT !["change"] = @ + 1]
    /\ UNCHANGED <<assets, df_2011, df_2022, census, group, pending, figures,
                   last, selections, pipeVars>>

\* lines 268-377: the layout, with the dropdowns' initial values and the
\* change bar chart's initial figure (line 327), and the callbacks.
Layout ==
    /\ pc = "layout"
    /\ census' = "2011"
    /\ group' = "catholic"
    /\ \E outcome \in make_bar_chart_of_changes_by_group(change_df, "catholic") :
          figures' = [figures EXCEPT !["change_bar"] = outcome.value]
    /\ pc' = "run_server"
    /\ UNCHANGED <<assets, df_2011, df_2022, change_df, loads, pending, last,
                   selections, pipeVars>>

\* line 379; on the page's load Dash calls every callback once.
RunServer ==
    /\ pc = "run_server"
    /\ pc' = "serving"
    /\ pending' = Outputs
    /\ UNCHANGED <<assets, df_2011, df_2022, change_df, loads, census, group,
                   figures, last, selections, pipeVars>>

\* The user picks a year, or clears the dropdown.
SelectCensus(year) ==
    /\ pc = "serving"
    /\ selections < MaxSelections
    /\ selections' = selections + 1
    /\ year # census
    /\ census' = year
    /\ pending' = pending \cup Triggered("census")
    /\ UNCHANGED <<assets, pc, df_2011, df_2022, change_df, loads, group,
                   figures, last, pipeVars>>

\* The user picks a religion, or clears the dropdown.
SelectGroup(religion) ==
    /\ pc = "serving"
    /\ selections < MaxSelections
    /\ selections' = selections + 1
    /\ religion # group
    /\ group' = religion
    /\ pending' = pending \cup Triggered("denomination")
    /\ UNCHANGED <<assets, pc, df_2011, df_2022, change_df, loads, census,
                   figures, last, pipeVars>>

\* Dash runs the callback of an output, once the server serves, with the
\* inputs' present values; the figure is replaced when the callback returns,
\* and kept when it raises.
Ran(output, name, table, outcome) ==
    /\ output \in pending
    /\ pending' = pending \ {output}
    /\ figures' = IF outcome.raised = "none"
                  THEN [figures EXCEPT ![output] = outcome.value]
                  ELSE figures
    /\ last' = [callback |-> name, output |-> output, census |-> census,
                group |-> group, table_is_none |-> (table = NoFrame),
                raised |-> outcome.raised]
    /\ UNCHANGED <<assets, pc, loads, census, group, selections, pipeVars>>

\* lines 344-346
update_map ==
    LET df == get_data_frame_by_year(census)
    IN  /\ pc = "serving"
        /\ \E outcome \in make_choropleth_map(df, group) :
              Ran("choropleth_map", "update_map", df, outcome)
        /\ UNCHANGED <<df_2011, df_2022, change_df>>

\* lines 353-355
update_single_religion_bar_chart ==
    LET df == get_data_frame_by_year(census)
    IN  /\ pc = "serving"
        /\ \E outcome \in make_bar_chart_by_county_and_group(df, group) :
              Ran("single_religion_bar_chart", "update_single_religion_bar_chart",
                  df, outcome)
        /\ UNCHANGED <<df_2011, df_2022, change_df>>

\* lines 361-363
update_every_religion_bar_chart ==
    LET df == get_data_frame_by_year(census)
    IN  /\ pc = "serving"
        /\ \E outcome \in make_bar_chart_by_county(df) :
              Ran("every_religion_bar_chart", "update_every_religion_bar_chart",
                  df, outcome)
        /\ UNCHANGED <<df_2011, df_2022, change_df>>

\* lines 369-370: the first update_change_map, the one of the change map.
update_change_map ==
    /\ pc = "serving"
    /\ \E outcome \in make_change_choropleth_map(change_df, group) :
          /\ Ran("change_map", "update_change_map", change_df, outcome)
          /\ change_df' = outcome.df
    /\ UNCHANGED <<df_2011, df_2022>>

\* lines 376-377: the second update_change_map, the one of the change bar
\* chart (registered under its Output; the shared name is no clash).
update_change_bar ==
    /\ pc = "serving"
    /\ \E outcome \in make_bar_chart_of_changes_by_group(change_df, group) :
          Ran("change_bar", "update_change_map", change_df, outcome)
    /\ UNCHANGED <<df_2011, df_2022, change_df>>

Next ==
    \/ Load2011
    \/ Load2022
    \/ LoadChange
    \/ Layout
    \/ RunServer
    \/ \E year \in CensusOptions \cup {None} : SelectCensus(year)
    \/ \E religion \in GroupOptions \cup {None} : SelectGroup(religion)
    \/ update_map
    \/ update_single_religion_bar_chart
    \/ update_every_religion_bar_chart
    \/ update_change_map
    \/ update_change_bar

Spec == Init /\ [][Next]_vars

----------------------------------------------------------------------------
(* The input files SpecPipe draws from *)

\* The most rows an input table has, and how many of the religion keys the
\* aggregation is tried with.
MaxRows == 2
NumKeys == 3

\* District identifiers as read with dtype 'string' (leading zeros kept).
DistrictIds == {"001", "002", "003"}

\* County lookups: every identifier in at most one county (the data model's
\* invariant); "003" is in no county of the first two.
Lookups ==
    { << [name |-> "Pest", ids |-> <<"001", "002">>] >>,
      << [name |-> "Pest", ids |-> <<"001">>],
         [name |-> "Fejer", ids |-> <<"002">>] >>,
      << [name |-> "Pest", ids |-> <<"001", "003">>],
         [name |-> "Fejer", ids |-> <<"002">>] >> }

Injective(s) == \A i, j \in DOMAIN s : s[i] = s[j] => i = j

SeqsUpTo(S, n) == UNION {[1..m -> S] : m \in 0..n}

\* One record per district identifier, in any file order.
IdSeqs == {s \in SeqsUpTo(DistrictIds, MaxRows) : Injective(s)}

\* A year file's keys, in any order: the identifier, possibly a district
\* name, and some religion columns.
YearColumns == {"name", "id", "catholic", "calvinist"}
YearLayouts ==
    {s \in SeqsUpTo(YearColumns, Cardinality(YearColumns)) :
        Injective(s) /\ "id" \in Range(s)}

\* The change file's keys: the identifier first, then change_ columns.
ChangeColumns == {"change_catholic", "change_calvinist"}
ChangeLayouts ==
    {<<"id">> \o s : s \in {t \in SeqsUpTo(ChangeColumns, Cardinality(ChangeColumns)) :
                               Injective(t)}}

\* Head counts per cell, and change fractions in units of 0.00001:
\* 0.01, 0.03 and -0.02 for one column, 0.015 and 0.01234 for the other.
Values(column) ==
    CASE column = "change_catholic"  -> {1000, 3000, -2000}
      [] column = "change_calvinist" -> {1500, 1234}
      [] column = "catholic"         -> {50, 100}
      [] OTHER                       -> {7}

\* The tables with the given columns and identifiers: every numeric cell
\* takes every value.
Tables(cols, ids) ==
    LET numeric == {p \in (DOMAIN ids) \X (DOMAIN cols) : cols[p[2]] \notin {"id", "name"}}
    IN  { DataFrame(cols,
                    [r \in DOMAIN ids |->
                       [c \in DOMAIN cols |->
                          IF cols[c] = "id" THEN Str(ids[r])
                          ELSE IF cols[c] = "name" THEN Str("jaras " \o ids[r])
                          ELSE Num(f[<<r, c>>])]]) :
          f \in {g \in [numeric -> UNION {Values(c) : c \in Range(cols)}] :
                    \A q \in numeric : g[q] \in Values(cols[q[2]])} }

YearFiles == UNION {Tables(cols, ids) : cols \in YearLayouts, ids \in IdSeqs}
ChangeFiles == UNION {Tables(cols, ids) : cols \in ChangeLayouts, ids \in IdSeqs}

\* The group arguments the aggregation is tried with: known keys, the None of
\* a cleared dropdown, and a key that is no religion of RELIGIONS.
KeysTried == Range(SubSeq(RELIGION_VALUES, 1, NumKeys)) \cup {None, "buddhist"}

----------------------------------------------------------------------------
(* SpecPipe *)

AppIdle ==
    /\ assets = [path \in Paths |-> "ok"] /\ pc = "idle"
    /\ df_2011 = NoFrame /\ df_2022 = NoFrame /\ change_df = NoFrame
    /\ loads = [t \in {"2011", "2022", "change"} |-> 0]
    /\ census = None /\ group = None
    /\ pending = {} /\ figures = [o \in Outputs |-> NoFigure] /\ last = NoCall
    /\ selections = 0

InitPipe ==
    /\ counties \in Lookups
    /\ kind \in {"year", "change"}
    /\ frame \in (IF kind = "year" THEN YearFiles ELSE ChangeFiles)
    /\ merged = NoFrame /\ long = NoFrame /\ final = NoFrame
    /\ key = None /\ raised = "none"
    /\ AppIdle

\* load_data_frame / load_change_data_frame after read_json: lines 61, 75.
Join ==
    /\ merged = NoFrame
    /\ merged' = merge_with_county_names(frame, counties)
    /\ UNCHANGED <<counties, frame, kind, long, final, key, raised, appVars>>

\* transform_data_orientation on a joined year table (lines 180, 194).
ToLong ==
    /\ kind = "year" /\ merged # NoFrame /\ long = NoFrame
    /\ long' = transform_data_orientation(merged)
    /\ UNCHANGED <<counties, frame, kind, merged, final, key, raised, appVars>>

\* transform_changes_data_frame on the joined change table (line 235).
ToLongChanges ==
    /\ kind = "change" /\ merged # NoFrame /\ long = NoFrame /\ final = NoFrame
    /\ long' = transform_changes_data_frame(merged)
    /\ UNCHANGED <<counties, frame, kind, merged, final, key, raised, appVars>>

\* The aggregation of make_bar_chart_of_changes_by_group (lines 235-248);
\* nothing in it raises, whatever the group.
Aggregate(grp) ==
    /\ kind = "change" /\ merged # NoFrame /\ long = NoFrame /\ final = NoFrame
    /\ key' = grp
    /\ final' = final_df(merged, grp)
    /\ raised' = "none"
    /\ UNCHANGED <<counties, frame, kind, merged, long, appVars>>

NextPipe ==
    \/ Join
    \/ ToLong
    \/ ToLongChanges
    \/ \E grp \in KeysTried : Aggregate(grp)

SpecPipe == InitPipe /\ [][NextPipe]_vars

----------------------------------------------------------------------------
(* Properties of the pipeline, checked under SpecPipe *)

\* What the claims speak of, read off the tables by column name.
Cell(df, rec, name) == rec[IndexOf(df.columns, name)]
ReligionColumns(df) == Range(df.columns) \cap Range(RELIGION_VALUES)
ChangeColumnsOf(df) ==
    Range(df.columns) \cap {change_(x) : x \in Range(RELIGION_VALUES)}
LookupIds == UNION {Range(counties[c].ids) : c \in DOMAIN counties}
CountyNames == {counties[c].name : c \in DOMAIN counties}
CountyOf(id) ==
    counties[CHOOSE c \in DOMAIN counties : id \in Range(counties[c].ids)].name

RECURSIVE SumOver(_, _)
SumOver(S, f) ==
    IF S = {} THEN 0
    ELSE LET x == CHOOSE y \in S : TRUE IN f[x] + SumOver(S \ {x}, f)

\* w is x rounded to two decimals: a multiple of Cent nearest to x.
IsRound2Of(w, x) == w % Cent = 0 /\ 2 * abs(w - x) <= Cent

\* C1: for every row r of a joined year table, whatever the order of its
\* columns, and every religion column c, toLong emits a long row with r's
\* district identifier, r's county, group c and r's cell in column c.
C1_ToLongEmitsRow ==
    (kind = "year" /\ long # NoFrame) =>
        \A r \in DOMAIN merged.records : \A c \in ReligionColumns(merged) :
            \E k \in DOMAIN long.records :
                /\ long.records[k].id = Cell(merged, merged.records[r], "id")
                /\ long.records[k].county = Cell(merged, merged.records[r], "county")
                /\ long.records[k].group = c
                /\ long.records[k].value = Cell(merged, merged.records[r], c)

\* C2: toLong yields rows(T) * |keys /\ columns(T)| rows, and so an empty long
\* table when no column of T is a religion key.
C2_LongRowCount ==
    (kind = "year" /\ long # NoFrame) =>
        Len(long.records) =
            Len(merged.records) * Cardinality(ReligionColumns(merged))

\* C2's case: two rows and two religion columns give four long rows.
C2_Witness ==
    /\ kind = "year" /\ long # NoFrame
    /\ Len(merged.records) = 2
    /\ Cardinality(ReligionColumns(merged)) = 2
    /\ "name" \in Range(merged.columns)
    /\ Len(long.records) = 4

C4_MeanChangeByCounty ==
    (final # NoFrame /\ key \in Range(RELIGION_VALUES)) =>
        LET rows == transform_changes_data_frame(merged).records
            Of(n) == {k \in DOMAIN rows : /\ rows[k].county = Str(n)
                                          /\ rows[k].group = change_(key)}
            value == [k \in DOMAIN rows |-> rows[k].value.num]
        IN  /\ \A k \in DOMAIN final.records :
                  \E n \in CountyNames : final.records[k].county = Str(n)
            /\ \A n \in CountyNames :
                  LET IsN(row) == row.county = Str(n)
                  IN  /\ Cardinality({k \in DOMAIN final.records :
                                         IsN(final.records[k])})
                             = IF Of(n) = {} THEN 0 ELSE 1
                      /\ \A k \in DOMAIN final.records :
                            IsN(final.records[k]) =>
                               LET a == final.records[k].average_change
                               IN  /\ a.den > 0
                                   /\ a.num * Cardinality(Of(n)) =
                                         a.den * SumOver(Of(n), value)

\* C4's case: Pest's rows 1.0 and 3.0 average to 2.0 although the other
\* group's rows differ, and Fejer, with no row, is absent.
C4_Witness ==
    /\ final # NoFrame /\ key = "catholic"
    /\ "Fejer" \in CountyNames
    /\ "change_calvinist" \in Range(merged.columns)
    /\ Len(merged.records) = 2
    /\ final.records = << [county |-> Str("Pest"),
                           average_change |-> [num |-> 200000, den |-> 1]] >>

\* C5: called with a key that is none of the 8 religions (None included),
\* the aggregator ends in InvalidArgument and yields no aggregate.
C5_UnknownKeyRaises ==
    ((final # NoFrame \/ raised # "none") /\ key \notin Range(RELIGION_VALUES))
        => (raised = "InvalidArgument" /\ final = NoFrame)

\* C6: the join keeps exactly the source rows whose id is in the lookup's
\* union, each once with its county attached, and drops the others.
C6_JoinRowCount ==
    merged # NoFrame =>
        LET ids == {Cell(frame, frame.records[r], "id").str : r \in DOMAIN frame.records}
        IN  /\ merged.columns = Append(frame.columns, "county")
            /\ Len(merged.records) = Cardinality(LookupIds \cap ids)
            /\ \A r \in DOMAIN frame.records :
                 LET rec == frame.records[r]
                     id == Cell(frame, rec, "id").str
                     SameId(m) == Cell(merged, m, "id") = Str(id)
                     copies == {k \in DOMAIN merged.records :
                                   SameId(merged.records[k])}
                 IN  IF id \in LookupIds
                     THEN /\ Cardinality(copies) = 1
                          /\ \E k \in DOMAIN merged.records :
                                merged.records[k] = Append(rec, Str(CountyOf(id)))
                     ELSE copies = {}

\* C6's case: of two source rows one is resolved and kept, one dropped.
C6_Witness ==
    /\ merged # NoFrame
    /\ Len(frame.records) = 2
    /\ Len(merged.records) = 1

----------------------------------------------------------------------------
(* Properties of main(), checked under Spec *)

Started == pc \in {"layout", "run_server", "serving"}
YearCallbacks == {"update_map", "update_single_religion_bar_chart",
                  "update_every_religion_bar_chart"}

\* The figure of an output is one the given call returns.
Shows(output, outcomes) ==
    \E outcome \in outcomes :
        outcome.raised = "none" /\ figures[output] = outcome.value

\* C7: after startup, whatever the selections and the callbacks run, the
\* three loaded tables are what the loads returned: the chart builders, the
\* scaling by 100 of make_change_choropleth_map included, write to copies.
C7_TablesNeverMutated ==
    Started =>
        /\ df_2011 = merge_with_county_names(AssetYear("2011"), AssetCounties)
        /\ df_2022 = merge_with_county_names(AssetYear("2022"), AssetCounties)
        /\ change_df = merge_with_county_names(AssetChange, AssetCounties)

\* C7's case: the change map was drawn from values scaled by 100, after the
\* user changed the religion, and every callback has run.
C7_Witness ==
    /\ pc = "serving" /\ pending = {} /\ selections >= 1
    /\ group = "calvinist"
    /\ figures["change_map"] # NoFigure
    /\ figures["change_map"].z[1] =
          Num(100 * Cell(change_df, change_df.records[1], "change_calvinist").num)

\* C8: once every callback triggered by the selections has run, each chart
\* is the one computed from the current selection: the map and the single
\* religion chart from the selected year's table and the selected religion,
\* the all-religions chart from the selected year's table, the change map
\* and the change bar chart from the change table and the selected religion.
C8_ChartsShowSelection ==
    (/\ pc = "serving" /\ pending = {}
     /\ census \in CensusOptions /\ group \in Range(RELIGION_VALUES)) =>
        LET df == IF census = "2011" THEN df_2011 ELSE df_2022
        IN  /\ Shows("choropleth_map", make_choropleth_map(df, group))
            /\ Shows("single_religion_bar_chart",
                     make_bar_chart_by_county_and_group(df, group))
            /\ Shows("every_religion_bar_chart", make_bar_chart_by_county(df))
            /\ Shows("change_map", make_change_choropleth_map(change_df, group))
            /\ Shows("change_bar",
                     make_bar_chart_of_changes_by_group(change_df, group))

\* C8's case: both dropdowns were changed and every triggered callback ran.
C8_Witness ==
    /\ pc = "serving" /\ pending = {} /\ selections = 2
    /\ census = "2022" /\ group = "calvinist"
    /\ figures["choropleth_map"].color = "calvinist"
    /\ figures["choropleth_map"].z = Column(df_2022, "calvinist")

\* C9: a request for the table of a year other than 2011 and 2022 ends in a
\* NotFoundError, and no chart builder is handed a missing table.
C9_UnsupportedYearNotFound ==
    (/\ last # NoCall
     /\ last.callback \in YearCallbacks
     /\ last.census \notin CensusOptions) =>
        (last.raised = "NotFoundError" /\ ~last.table_is_none)

\* C10: each table is loaded once, in order, before the server serves; a
\* load that fails aborts main(), and then no callback ever runs; a callback
\* runs only with the three tables loaded and joined.
C10_StartupOrder ==
    /\ \A t \in DOMAIN loads : loads[t] <= 1
    /\ (pc \notin {"load_2011", "aborted"}) => (loads["2011"] = 1 /\ df_2011 # NoFrame)
    /\ loads["2022"] = 1 => (loads["2011"] = 1 /\ df_2011 # NoFrame)
    /\ loads["change"] = 1 => (loads["2022"] = 1 /\ df_2022 # NoFrame)
    /\ Started =>
          /\ \A t \in DOMAIN loads : loads[t] = 1
          /\ \A df \in {df_2011, df_2022, change_df} :
                df # NoFrame /\ HasColumn(df, "county")
    /\ (last # NoCall \/ pending # {}) => pc = "serving"
    /\ (\E path \in Paths : assets[path] # "ok") =>
          /\ pc \in {"load_2011", "load_2022", "load_change", "aborted"}
          /\ last = NoCall /\ pending = {}

\* C10's case: the third load failed after two that succeeded; main() is
\* aborted and no callback has run.
C10_Witness ==
    /\ pc = "aborted"
    /\ \A t \in DOMAIN loads : loads[t] = 1
    /\ df_2011 # NoFrame /\ df_2022 # NoFrame /\ change_df = NoFrame
    /\ last = NoCall

============================================================================
